---- MODULE Spec2Model ----
(***************************************************************************)
(* Fast-Notepad server (main.go): the bootstrap of data.txt and            *)
(* data_readable.txt, and the /save, /load and /ping handlers, each        *)
(* request running on its own goroutine.                                   *)
(*                                                                         *)
(* A file is a sequence of bytes (one-character strings; the indented      *)
(* rendering uses one symbol per line fragment).  ioutil.WriteFile is the  *)
(* three steps it performs: open with O_CREATE|O_TRUNC, write at the       *)
(* handle's offset in steps of at most ChunkLen bytes, close.  It can fail *)
(* at the open (file unchanged) or during the write (file left truncated   *)
(* or partly written).                                                     *)
(* ioutil.ReadFile opens the file and reads until a read returns EOF.      *)
(***************************************************************************)
EXTENDS Integers, Sequences, FiniteSets, TLC

\* ------------------------------------------------------------------ bounds
\* Number of HTTP requests the server receives in one run.
NumReqs == 3

Reqs == 1..NumReqs

\* Number of HTTP requests in the runs checked under fairness.
NumFairReqs == 2

\* Most bytes one write step of an open file takes.
ChunkLen == 2

\* ------------------------------------------------------------- vocabulary
DataTxt == "data.txt"
ReadableTxt == "data_readable.txt"
FileNames == {DataTxt, ReadableTxt}

\* A file: whether it exists (os.Stat), and its bytes.
Absent == [exists |-> FALSE, bytes |-> <<>>]
File(bytes) == [exists |-> TRUE, bytes |-> bytes]

\* saveMutex with no holder.
NoHolder == 0

Methods == {"GET", "POST"}
Paths == {"/save", "/load", "/ping"}

\* Request bodies the clients send.
PSpaced == <<"[", " ", "]">>
POne == <<"[", "{", "}", "]">>
PObject == <<"{", "}">>
Payloads == {PSpaced, POne, PObject}

\* Contents data.txt / data_readable.txt may have from an earlier run.
OldData == <<"n", "u", "l", "l">>
OldReadable == <<"n", "u", "l", "l">>

\* ------------------------------------------------------ encoding/json model
\* The zero value of Note (lines 14-20): empty strings, nil Content slice,
\* zero time.Time.
ZeroNote ==
  [ID |-> "", Title |-> "", Content |-> "nil",
   CreatedAt |-> "0001-01-01T00:00:00Z", UpdatedAt |-> "0001-01-01T00:00:00Z"]

\* The outcome of json.Unmarshal(body, &notes): err # nil, or the decoded
\* []Note (isNil for the nil slice the JSON literal null leaves).
ParseError == [err |-> TRUE, isNil |-> TRUE, elems |-> <<>>]
NilNotes == [err |-> FALSE, isNil |-> TRUE, elems |-> <<>>]
Notes(elems) == [err |-> FALSE, isNil |-> FALSE, elems |-> elems]

IsSpace(c) == c = " "

\* Scanner: bytes to JSON tokens; "bad" marks a byte sequence that is no token.
RECURSIVE Tokens(_)
Tokens(b) ==
  IF b = <<>> THEN <<>>
  ELSE IF IsSpace(Head(b)) THEN Tokens(Tail(b))
  ELSE IF Head(b) \in {"[", "]", "{", "}", ","} THEN <<Head(b)>> \o Tokens(Tail(b))
  ELSE IF Len(b) >= 4 /\ SubSeq(b, 1, 4) = <<"n", "u", "l", "l">>
       THEN <<"null">> \o Tokens(SubSeq(b, 5, Len(b)))
  ELSE <<"bad">>

\* Elements of a JSON array decoded into []Note: t is the token sequence
\* between the brackets.  An element is {} or null; both leave the zero Note.
RECURSIVE Elements(_)
Elements(t) ==
  LET n == IF Len(t) >= 2 /\ t[1] = "{" /\ t[2] = "}" THEN 2
           ELSE IF Len(t) >= 1 /\ t[1] = "null" THEN 1
           ELSE 0
  IN IF n = 0 THEN ParseError
     ELSE IF Len(t) = n THEN Notes(<<ZeroNote>>)
     ELSE IF t[n + 1] # "," THEN ParseError
     ELSE LET rest == Elements(SubSeq(t, n + 2, Len(t)))
          IN IF rest.err THEN ParseError ELSE Notes(<<ZeroNote>> \o rest.elems)

\* json.Unmarshal(body, &notes) with notes of type []Note.
Unmarshal(b) ==
  LET t == Tokens(b) IN
  IF t = <<"null">> THEN NilNotes
  ELSE IF Len(t) >= 2 /\ t[1] = "[" /\ t[Len(t)] = "]"
       THEN IF Len(t) = 2 THEN Notes(<<>>) ELSE Elements(SubSeq(t, 2, Len(t) - 1))
       ELSE ParseError

\* The fields of one note as encoding/json prints them; sep separates fields
\* and colon follows a key.
NoteFields(n, sep, colon) ==
  "\"id\"" \o colon \o "\"" \o n.ID \o "\"," \o sep
    \o "\"title\"" \o colon \o "\"" \o n.Title \o "\"," \o sep
    \o "\"content\"" \o colon \o "null," \o sep
    \o "\"createdAt\"" \o colon \o "\"" \o n.CreatedAt \o "\"," \o sep
    \o "\"updatedAt\"" \o colon \o "\"" \o n.UpdatedAt \o "\""

\* One note inside an indented array (prefix "", indent "  ").
NoteLines(n) == <<"\n  {", "\n    " \o NoteFields(n, "\n    ", ": "), "\n  }">>

RECURSIVE IndentNotes(_)
IndentNotes(ns) ==
  IF Len(ns) = 1 THEN NoteLines(ns[1])
  ELSE NoteLines(ns[1]) \o <<",">> \o IndentNotes(Tail(ns))

\* json.MarshalIndent(notes, "", "  ").
MarshalIndent(notes) ==
  IF notes.isNil THEN <<"n", "u", "l", "l">>
  ELSE IF notes.elems = <<>> THEN <<"[", "]">>
  ELSE <<"[">> \o IndentNotes(notes.elems) \o <<"\n", "]">>

RECURSIVE CompactNotes(_)
CompactNotes(ns) ==
  IF Len(ns) = 1 THEN <<"{", NoteFields(ns[1], "", ":"), "}">>
  ELSE <<"{", NoteFields(ns[1], "", ":"), "}", ",">> \o CompactNotes(Tail(ns))

\* json.Marshal(notes).
Marshal(notes) ==
  IF notes.isNil THEN <<"n", "u", "l", "l">>
  ELSE IF notes.elems = <<>> THEN <<"[", "]">>
  ELSE <<"[">> \o CompactNotes(notes.elems) \o <<"]">>

\* Mutation: var emptyNotes []Note, a nil slice.
emptyNotes_Nil == NilNotes

\* emptyNotes := []Note{}  (line 51)
emptyNotes == Notes(<<>>)

\* json.NewEncoder(w).Encode(m) for the map[string]string responses
\* (lines 78-79, 120-121): keys in sorted order, a trailing newline.
Encode(m) ==
  <<"{\"message\":\"" \o m.message \o "\",\"status\":\"" \o m.status \o "\"}\n">>

\* http.Error(w, msg, code) writes msg and a newline.
ErrorText(msg) == <<msg \o "\n">>

\* ------------------------------------------------------------- file system
\* Mutation: the open without O_TRUNC keeps the bytes of an existing file.
OpenFile_NoTrunc(fs, f) == [fs EXCEPT ![f] = File(fs[f].bytes)]

\* Mutation: the file is removed first and created again by the first write.
OpenFile_Unlink(fs, f) == [fs EXCEPT ![f] = Absent]

\* os.OpenFile(name, O_WRONLY|O_CREATE|O_TRUNC, perm), the first step of
\* ioutil.WriteFile (lines 55, 64, 99, 109).
OpenFile(fs, f) == [fs EXCEPT ![f] = File(<<>>)]

\* A byte never written (a hole left by a write past the end of the file).
Hole == "\\0"

\* The bytes of a file after writing chunk at offset o.
WriteAt(bytes, o, chunk) ==
  LET padded == IF Len(bytes) < o
                THEN bytes \o [i \in 1..(o - Len(bytes)) |-> Hole]
                ELSE bytes
  IN SubSeq(padded, 1, o) \o chunk \o SubSeq(padded, o + Len(chunk) + 1, Len(padded))

\* f.Write(data) on the handle at offset o: the kernel takes k more bytes.
WriteFileAt(fs, f, data, o, k) ==
  [fs EXCEPT ![f] = File(WriteAt(fs[f].bytes, o, SubSeq(data, o + 1, o + k)))]

\* How many bytes a write step takes when rem bytes remain.
ChunkSize(rem) == IF rem < ChunkLen THEN rem ELSE ChunkLen

\* ------------------------------------------------------------------- state
VARIABLES
  mainPc,     \* where main() is: bootstrap steps, then "serve"
  mainOff,    \* offset of main's open file handle
  files,      \* the working directory: file name -> file
  saveMutex,  \* holder of saveMutex, or NoHolder
  pc,         \* per request: position in its handler
  path,       \* per request: URL path
  method,     \* per request: r.Method
  body,       \* per request: the bytes ioutil.ReadAll returned
  status,     \* per request: HTTP status written (0: none yet)
  resp,       \* per request: response body written
  off,        \* per request: offset of the handler's open file handle
  buf,        \* per request: bytes ioutil.ReadFile has read so far
  lastWrite,  \* history: the latest ioutil.WriteFile that opened data.txt
  lastReadable, \* history: the latest ioutil.WriteFile of data_readable.txt
  lockOrder,  \* history: requests in the order they acquired saveMutex
  wrote,      \* history: per request, the files it has opened for writing
  prior       \* history: per load in progress, the save that had returned last
              \* when it arrived

vars == <<mainPc, mainOff, files, saveMutex, pc, path, method, body,
          status, resp, off, buf, lastWrite, lastReadable, lockOrder, wrote, prior>>

reqVars == <<pc, path, method, body, status, resp, off, buf, lockOrder, wrote, prior>>

\* main(), as the writer of a file (requests are 1..NumReqs).
Main == 0

\* lastWrite: who opened data.txt last (Main or a request) and how far that
\* WriteFile got: "none" (nobody has since the process started), "open",
\* "failed" or "closed".
\* lastReadable: the same for data_readable.txt, as whoever called WriteFile
\* on it last: "open", "closed", or "failed" when the call returned an error
\* (at the open, which leaves the file as it was, or in the write).
NoWrite == [by |-> Main, state |-> "none"]
Write(who, st) == [by |-> who, state |-> st]

\* The save that returned last (saves return in the order they hold the
\* mutex); 0 when none has.
LastReturned ==
  LET done == {i \in 1..Len(lockOrder) : pc[lockOrder[i]] = "done"}
  IN IF done = {} THEN 0
     ELSE lockOrder[CHOOSE i \in done : \A j \in done : j <= i]

Init ==
  /\ mainPc = "stat"
  /\ mainOff = 0
  /\ files \in {[f \in FileNames |-> IF f = DataTxt THEN d ELSE x] :
                  d \in {Absent, File(OldData)}, x \in {Absent, File(OldReadable)}}
  /\ saveMutex = NoHolder
  /\ pc = [r \in Reqs |-> "idle"]
  /\ path = [r \in Reqs |-> ""]
  /\ method = [r \in Reqs |-> ""]
  /\ body = [r \in Reqs |-> <<>>]
  /\ status = [r \in Reqs |-> 0]
  /\ resp = [r \in Reqs |-> <<>>]
  /\ off = [r \in Reqs |-> 0]
  /\ buf = [r \in Reqs |-> <<>>]
  /\ lastWrite = NoWrite
  /\ lastReadable = NoWrite
  /\ lockOrder = <<>>
  /\ wrote = [r \in Reqs |-> {}]
  /\ prior = [r \in Reqs |-> 0]

\* ------------------------------------------ createDefaultFilesIfNotExists
\* Mutation: the mirror is created whether or not data.txt exists.
BootStat_MirrorAlways ==
  /\ mainPc = "stat"
  /\ IF ~files[DataTxt].exists
     THEN mainPc' = "open_data"
     ELSE mainPc' = "open_readable"
  /\ UNCHANGED <<mainOff, files, saveMutex, lastWrite, lastReadable>>
  /\ UNCHANGED reqVars

\* if _, err := os.Stat("data.txt"); os.IsNotExist(err) { ... } else { log }
BootStat ==
  /\ mainPc = "stat"
  /\ IF ~files[DataTxt].exists
     THEN mainPc' = "open_data"
     ELSE mainPc' = "serve"
  /\ UNCHANGED <<mainOff, files, saveMutex, lastWrite, lastReadable>>
  /\ UNCHANGED reqVars

\* ioutil.WriteFile("data.txt", data, 0644): open.
BootOpenData ==
  /\ mainPc = "open_data"
  /\ files' = OpenFile(files, DataTxt)
  /\ mainOff' = 0
  /\ mainPc' = "write_data"
  /\ lastWrite' = Write(Main, "open")
  /\ UNCHANGED <<saveMutex, lastReadable>>
  /\ UNCHANGED reqVars

\* ioutil.WriteFile("data.txt", data, 0644): write, close.
BootWriteData ==
  /\ mainPc = "write_data"
  /\ LET data == Marshal(emptyNotes) IN
     LET k == ChunkSize(Len(data) - mainOff) IN
        /\ files' = WriteFileAt(files, DataTxt, data, mainOff, k)
        /\ mainOff' = IF mainOff + k = Len(data) THEN 0 ELSE mainOff + k
        /\ mainPc' = IF mainOff + k = Len(data) THEN "open_readable" ELSE "write_data"
        /\ lastWrite' = IF mainOff + k = Len(data) THEN Write(Main, "closed")
                        ELSE lastWrite
  /\ UNCHANGED <<saveMutex, lastReadable>>
  /\ UNCHANGED reqVars

\* ioutil.WriteFile("data.txt", ...) returns an error: logged, bootstrap goes on.
BootDataFail ==
  /\ mainPc \in {"open_data", "write_data"}
  /\ mainPc' = "open_readable"
  /\ mainOff' = 0
  /\ lastWrite' = IF mainPc = "write_data" THEN Write(Main, "failed") ELSE lastWrite
  /\ UNCHANGED <<files, saveMutex, lastReadable>>
  /\ UNCHANGED reqVars

\* ioutil.WriteFile("data_readable.txt", readableData, 0644): open.
BootOpenReadable ==
  /\ mainPc = "open_readable"
  /\ files' = OpenFile(files, ReadableTxt)
  /\ mainOff' = 0
  /\ mainPc' = "write_readable"
  /\ lastReadable' = Write(Main, "open")
  /\ UNCHANGED <<saveMutex, lastWrite>>
  /\ UNCHANGED reqVars

\* ioutil.WriteFile("data_readable.txt", ...): write, close; then main serves.
BootWriteReadable ==
  /\ mainPc = "write_readable"
  /\ LET data == MarshalIndent(emptyNotes) IN
     LET k == ChunkSize(Len(data) - mainOff) IN
        /\ files' = WriteFileAt(files, ReadableTxt, data, mainOff, k)
        /\ mainOff' = IF mainOff + k = Len(data) THEN 0 ELSE mainOff + k
        /\ mainPc' = IF mainOff + k = Len(data) THEN "serve" ELSE "write_readable"
        /\ lastReadable' = IF mainOff + k = Len(data) THEN Write(Main, "closed")
                           ELSE lastReadable
  /\ UNCHANGED <<saveMutex, lastWrite>>
  /\ UNCHANGED reqVars

\* ioutil.WriteFile("data_readable.txt", ...) returns an error: logged.
BootReadableFail ==
  /\ mainPc \in {"open_readable", "write_readable"}
  /\ mainPc' = "serve"
  /\ mainOff' = 0
  /\ lastReadable' = Write(Main, "failed")
  /\ UNCHANGED <<files, saveMutex, lastWrite>>
  /\ UNCHANGED reqVars

\* ---------------------------------------------------------------- requests
\* Mutation: the bootstrap started on its own goroutine, the server
\* accepting requests while it runs.
Accepting_Early(r) ==
  /\ pc[r] = "idle"
  /\ \A q \in Reqs : q < r => pc[q] # "idle"

\* http.ListenAndServe runs after the bootstrap returned (lines 35-43); the
\* requests are numbered in the order the server accepts them.
Accepting(r) ==
  /\ mainPc = "serve"
  /\ pc[r] = "idle"
  /\ \A q \in Reqs : q < r => pc[q] # "idle"

\* Mutation: the handler without its method check.
MethodAllowed_Any(m, want) == TRUE

\* r.Method != http.MethodPost / http.MethodGet
MethodAllowed(m, want) == m = want

\* The handler of request r has written its response and returned.
Reply(r, code, text) ==
  /\ status' = [status EXCEPT ![r] = code]
  /\ resp' = [resp EXCEPT ![r] = text]

\* -------------------------------------------------------------- saveHandler
\* The response map of line 120.
SaveResponse == [status |-> "success", message |-> "Data saved successfully"]

\* Mutation: Lock() that never waits (the handler without the mutex).
CanLock_NoGate == TRUE

\* saveMutex.Lock() returns only when no goroutine holds the mutex.
CanLock == saveMutex = NoHolder

\* Mutation: Unlock() only at the end of the success path, not deferred.
Unlocked_OnSuccessOnly(r, code) == IF code = 200 THEN NoHolder ELSE r

\* defer saveMutex.Unlock(): the holder after the handler returned with
\* the given status.
Unlocked(r, code) == NoHolder

\* Mutation: data.txt gets the re-encoded notes when the body parses.
CompactBytes_Reencoded(b) == IF Unmarshal(b).err THEN b ELSE Marshal(Unmarshal(b))

\* The bytes saveHandler hands to ioutil.WriteFile("data.txt", body, 0644).
CompactBytes(b) == b

\* Mutation: the result of json.Unmarshal is not looked at.
ParseOk_Unchecked(b) == TRUE

\* err == nil of json.Unmarshal(body, &notes) (line 107).
ParseOk(b) == ~Unmarshal(b).err

\* Mutation: the mirror written with json.Marshal, not indented.
ReadableBytes_Compact(b) == Marshal(Unmarshal(b))

\* readableData, _ := json.MarshalIndent(notes, "", "  ")  (line 108)
ReadableBytes(b) == MarshalIndent(Unmarshal(b))

\* A request for /save arrives; lines 83-86: any method but POST is
\* answered 405 at once.
SaveBegin(r) ==
  /\ Accepting(r)
  /\ \E m \in Methods :
       /\ path' = [path EXCEPT ![r] = "/save"]
       /\ method' = [method EXCEPT ![r] = m]
       /\ IF ~MethodAllowed(m, "POST")
          THEN /\ Reply(r, 405, ErrorText("Only POST method is allowed"))
               /\ pc' = [pc EXCEPT ![r] = "done"]
          ELSE /\ pc' = [pc EXCEPT ![r] = "lock"]
               /\ UNCHANGED <<status, resp>>
  /\ UNCHANGED <<mainPc, mainOff, files, saveMutex, body, off, buf, lockOrder, wrote, lastWrite, lastReadable, prior>>

\* saveMutex.Lock()  (line 89)
SaveLock(r) ==
  /\ pc[r] = "lock"
  /\ CanLock
  /\ saveMutex' = r
  /\ lockOrder' = Append(lockOrder, r)
  /\ pc' = [pc EXCEPT ![r] = "readall"]
  /\ UNCHANGED <<mainPc, mainOff, files, path, method, body, status, resp, off, buf, wrote, lastWrite, lastReadable, prior>>

\* body, err := ioutil.ReadAll(r.Body) with err == nil  (line 92)
SaveReadAll(r) ==
  /\ pc[r] = "readall"
  /\ \E b \in Payloads : body' = [body EXCEPT ![r] = b]
  /\ pc' = [pc EXCEPT ![r] = "open_data"]
  /\ UNCHANGED <<mainPc, mainOff, files, saveMutex, path, method, status, resp,
                 off, buf, lockOrder, wrote, lastWrite, lastReadable, prior>>

\* Mutation: the error branch of line 93 without its return.
SaveReadAllFail_NoReturn(r) ==
  /\ pc[r] = "readall"
  /\ Reply(r, 400, ErrorText("Error reading request body"))
  /\ pc' = [pc EXCEPT ![r] = "open_data"]
  /\ UNCHANGED <<mainPc, mainOff, files, saveMutex, path, method, body,
                 off, buf, lockOrder, wrote, lastWrite, lastReadable, prior>>

\* ioutil.ReadAll fails: 400, return  (lines 93-96)
SaveReadAllFail(r) ==
  /\ pc[r] = "readall"
  /\ Reply(r, 400, ErrorText("Error reading request body"))
  /\ pc' = [pc EXCEPT ![r] = "return"]
  /\ UNCHANGED <<mainPc, mainOff, files, saveMutex, path, method, body,
                 off, buf, lockOrder, wrote, lastWrite, lastReadable, prior>>

\* ioutil.WriteFile("data.txt", body, 0644): open  (line 99)
SaveOpenData(r) ==
  /\ pc[r] = "open_data"
  /\ files' = OpenFile(files, DataTxt)
  /\ off' = [off EXCEPT ![r] = 0]
  /\ wrote' = [wrote EXCEPT ![r] = @ \cup {DataTxt}]
  /\ lastWrite' = Write(r, "open")
  /\ pc' = [pc EXCEPT ![r] = "write_data"]
  /\ UNCHANGED <<mainPc, mainOff, saveMutex, path, method, body, status, resp,
                 buf, lockOrder, lastReadable, prior>>

\* ioutil.WriteFile("data.txt", body, 0644): write, close  (line 99)
SaveWriteData(r) ==
  /\ pc[r] = "write_data"
  /\ LET data == CompactBytes(body[r]) IN
     LET k == ChunkSize(Len(data) - off[r]) IN
        /\ files' = WriteFileAt(files, DataTxt, data, off[r], k)
        /\ off' = [off EXCEPT ![r] = IF @ + k = Len(data) THEN 0 ELSE @ + k]
        /\ pc' = [pc EXCEPT ![r] = IF off[r] + k = Len(data) THEN "unmarshal"
                                   ELSE "write_data"]
        /\ lastWrite' = IF off[r] + k = Len(data) THEN Write(r, "closed") ELSE lastWrite
  /\ UNCHANGED <<mainPc, mainOff, saveMutex, path, method, body, status, resp,
                 buf, lockOrder, wrote, lastReadable, prior>>

\* Mutation: the error branch of line 100 without its return.
SaveWriteDataFail_NoReturn(r) ==
  /\ pc[r] \in {"open_data", "write_data"}
  /\ Reply(r, 500, ErrorText("Error saving to data.txt: write error"))
  /\ off' = [off EXCEPT ![r] = 0]
  /\ lastWrite' = IF pc[r] = "write_data" THEN Write(r, "failed") ELSE lastWrite
  /\ pc' = [pc EXCEPT ![r] = "unmarshal"]
  /\ UNCHANGED <<mainPc, mainOff, files, saveMutex, path, method, body,
                 buf, lockOrder, wrote, lastReadable, prior>>

\* ioutil.WriteFile("data.txt", ...) returns an error, at the open or in
\* the write: 500, return  (lines 100-103)
SaveWriteDataFail(r) ==
  /\ pc[r] \in {"open_data", "write_data"}
  /\ Reply(r, 500, ErrorText("Error saving to data.txt: write error"))
  /\ off' = [off EXCEPT ![r] = 0]
  /\ lastWrite' = IF pc[r] = "write_data" THEN Write(r, "failed") ELSE lastWrite
  /\ pc' = [pc EXCEPT ![r] = "return"]
  /\ UNCHANGED <<mainPc, mainOff, files, saveMutex, path, method, body,
                 buf, lockOrder, wrote, lastReadable, prior>>

\* if err := json.Unmarshal(body, &notes); err == nil { ... } else { log }
\* (lines 106-107, 115-117)
SaveUnmarshal(r) ==
  /\ pc[r] = "unmarshal"
  /\ pc' = [pc EXCEPT ![r] = IF ParseOk(body[r]) THEN "open_readable" ELSE "respond"]
  /\ UNCHANGED <<mainPc, mainOff, files, saveMutex, path, method, body, status, resp,
                 off, buf, lockOrder, wrote, lastWrite, lastReadable, prior>>

\* ioutil.WriteFile("data_readable.txt", readableData, 0644): open  (line 109)
SaveOpenReadable(r) ==
  /\ pc[r] = "open_readable"
  /\ files' = OpenFile(files, ReadableTxt)
  /\ off' = [off EXCEPT ![r] = 0]
  /\ wrote' = [wrote EXCEPT ![r] = @ \cup {ReadableTxt}]
  /\ lastReadable' = Write(r, "open")
  /\ pc' = [pc EXCEPT ![r] = "write_readable"]
  /\ UNCHANGED <<mainPc, mainOff, saveMutex, path, method, body, status, resp,
                 buf, lockOrder, lastWrite, prior>>

\* ioutil.WriteFile("data_readable.txt", ...): write, close  (line 109)
SaveWriteReadable(r) ==
  /\ pc[r] = "write_readable"
  /\ LET data == ReadableBytes(body[r]) IN
     LET k == ChunkSize(Len(data) - off[r]) IN
        /\ files' = WriteFileAt(files, ReadableTxt, data, off[r], k)
        /\ off' = [off EXCEPT ![r] = IF @ + k = Len(data) THEN 0 ELSE @ + k]
        /\ pc' = [pc EXCEPT ![r] = IF off[r] + k = Len(data) THEN "respond"
                                   ELSE "write_readable"]
        /\ lastReadable' = IF off[r] + k = Len(data) THEN Write(r, "closed")
                           ELSE lastReadable
  /\ UNCHANGED <<mainPc, mainOff, saveMutex, path, method, body, status, resp,
                 buf, lockOrder, wrote, lastWrite, prior>>

\* Mutation: the mirror's write error answered to the client as a 500.
SaveWriteReadableFail_Reported(r) ==
  /\ pc[r] \in {"open_readable", "write_readable"}
  /\ off' = [off EXCEPT ![r] = 0]
  /\ lastReadable' = Write(r, "failed")
  /\ Reply(r, 500, ErrorText("Error saving to data_readable.txt: write error"))
  /\ pc' = [pc EXCEPT ![r] = "return"]
  /\ UNCHANGED <<mainPc, mainOff, files, saveMutex, path, method, body,
                 buf, lockOrder, wrote, lastWrite, prior>>

\* ioutil.WriteFile("data_readable.txt", ...) returns an error: logged only
\* (lines 110-111)
SaveWriteReadableFail(r) ==
  /\ pc[r] \in {"open_readable", "write_readable"}
  /\ off' = [off EXCEPT ![r] = 0]
  /\ lastReadable' = Write(r, "failed")
  /\ pc' = [pc EXCEPT ![r] = "respond"]
  /\ UNCHANGED <<mainPc, mainOff, files, saveMutex, path, method, body, status, resp,
                 buf, lockOrder, wrote, lastWrite, prior>>

\* json.NewEncoder(w).Encode(response)  (lines 119-121)
SaveRespond(r) ==
  /\ pc[r] = "respond"
  /\ Reply(r, 200, Encode(SaveResponse))
  /\ pc' = [pc EXCEPT ![r] = "return"]
  /\ UNCHANGED <<mainPc, mainOff, files, saveMutex, path, method, body,
                 off, buf, lockOrder, wrote, lastWrite, lastReadable, prior>>

\* The handler returns and the deferred saveMutex.Unlock() runs  (line 90)
SaveReturn(r) ==
  /\ pc[r] = "return"
  /\ saveMutex' = Unlocked(r, status[r])
  /\ pc' = [pc EXCEPT ![r] = "done"]
  /\ UNCHANGED <<mainPc, mainOff, files, path, method, body, status, resp,
                 off, buf, lockOrder, wrote, lastWrite, lastReadable, prior>>

\* -------------------------------------------------------------- loadHandler
\* Mutation: loadHandler serving the pretty-printed mirror.
LoadFile_Readable == ReadableTxt

\* The file loadHandler reads (lines 131, 136).
LoadFile == DataTxt

\* A request for /load arrives; lines 125-128.
LoadBegin(r) ==
  /\ Accepting(r)
  /\ \E m \in Methods :
       /\ path' = [path EXCEPT ![r] = "/load"]
       /\ method' = [method EXCEPT ![r] = m]
       /\ IF ~MethodAllowed(m, "GET")
          THEN /\ Reply(r, 405, ErrorText("Only GET method is allowed"))
               /\ pc' = [pc EXCEPT ![r] = "done"]
               /\ UNCHANGED prior
          ELSE /\ pc' = [pc EXCEPT ![r] = "stat"]
               /\ prior' = [prior EXCEPT ![r] = LastReturned]
               /\ UNCHANGED <<status, resp>>
  /\ UNCHANGED <<mainPc, mainOff, files, saveMutex, body, off, buf, lockOrder, wrote, lastWrite, lastReadable>>

\* if _, err := os.Stat("data.txt"); os.IsNotExist(err) { 404 }  (lines 131-134)
LoadStat(r) ==
  /\ pc[r] = "stat"
  /\ IF ~files[LoadFile].exists
     THEN /\ Reply(r, 404, ErrorText("No saved data found"))
          /\ pc' = [pc EXCEPT ![r] = "done"]
          /\ prior' = [prior EXCEPT ![r] = 0]
     ELSE /\ pc' = [pc EXCEPT ![r] = "read"]
          /\ UNCHANGED <<status, resp, prior>>
  /\ UNCHANGED <<mainPc, mainOff, files, saveMutex, path, method, body,
                 off, buf, lockOrder, wrote, lastWrite, lastReadable>>

\* Mutation: loadHandler reading under saveMutex (no read while a save
\* holds it).
LoadRead_Locked(r) ==
  /\ pc[r] = "read"
  /\ CanLock
  /\ LET bytes == files[LoadFile].bytes
         avail == SubSeq(bytes, Len(buf[r]) + 1, Len(bytes))
     IN IF avail # <<>>
        THEN /\ buf' = [buf EXCEPT ![r] = @ \o avail]
             /\ UNCHANGED <<pc, status, resp, prior>>
        ELSE /\ Reply(r, 200, buf[r])
             /\ pc' = [pc EXCEPT ![r] = "done"]
             /\ buf' = [buf EXCEPT ![r] = <<>>]
             /\ prior' = [prior EXCEPT ![r] = 0]
  /\ UNCHANGED <<mainPc, mainOff, files, saveMutex, path, method, body,
                 off, lockOrder, wrote, lastWrite, lastReadable>>

\* data, err := ioutil.ReadFile("data.txt") (line 136): one read of the open
\* file.  It returns the bytes now present past those already read; when
\* there are none it is EOF, ReadFile returns and w.Write(data) answers
\* (lines 142-143).
LoadRead(r) ==
  /\ pc[r] = "read"
  /\ LET bytes == files[LoadFile].bytes
         avail == SubSeq(bytes, Len(buf[r]) + 1, Len(bytes))
     IN IF avail # <<>>
        THEN /\ buf' = [buf EXCEPT ![r] = @ \o avail]
             /\ UNCHANGED <<pc, status, resp, prior>>
        ELSE /\ Reply(r, 200, buf[r])
             /\ pc' = [pc EXCEPT ![r] = "done"]
             /\ buf' = [buf EXCEPT ![r] = <<>>]
             /\ prior' = [prior EXCEPT ![r] = 0]
  /\ UNCHANGED <<mainPc, mainOff, files, saveMutex, path, method, body,
                 off, lockOrder, wrote, lastWrite, lastReadable>>

\* ioutil.ReadFile returns an error: 500  (lines 137-140)
LoadReadFail(r) ==
  /\ pc[r] = "read"
  /\ Reply(r, 500, ErrorText("Error reading saved data: read error"))
  /\ pc' = [pc EXCEPT ![r] = "done"]
  /\ buf' = [buf EXCEPT ![r] = <<>>]
  /\ prior' = [prior EXCEPT ![r] = 0]
  /\ UNCHANGED <<mainPc, mainOff, files, saveMutex, path, method, body,
                 off, lockOrder, wrote, lastWrite, lastReadable>>

\* -------------------------------------------------------------- pingHandler
\* The response map of line 78.
PingResponse == [status |-> "ok", message |-> "Server is running"]

\* Mutation: pingHandler taking saveMutex before it answers.
PingHandler_Locked(r) ==
  /\ Accepting(r)
  /\ CanLock
  /\ path' = [path EXCEPT ![r] = "/ping"]
  /\ Reply(r, 200, Encode(PingResponse))
  /\ pc' = [pc EXCEPT ![r] = "done"]
  /\ UNCHANGED <<mainPc, mainOff, files, saveMutex, method, body, off, buf, lockOrder, wrote, lastWrite, lastReadable, prior>>

\* pingHandler answers any method  (lines 76-80)
PingHandler(r) ==
  /\ Accepting(r)
  /\ path' = [path EXCEPT ![r] = "/ping"]
  /\ Reply(r, 200, Encode(PingResponse))
  /\ pc' = [pc EXCEPT ![r] = "done"]
  /\ UNCHANGED <<mainPc, mainOff, files, saveMutex, method, body, off, buf, lockOrder, wrote, lastWrite, lastReadable, prior>>

\* ------------------------------------------------------------ specification
Bootstrap ==
  \/ BootStat
  \/ BootOpenData
  \/ BootWriteData
  \/ BootDataFail
  \/ BootOpenReadable
  \/ BootWriteReadable
  \/ BootReadableFail

Save(r) ==
  \/ SaveBegin(r)
  \/ SaveLock(r)
  \/ SaveReadAll(r)
  \/ SaveReadAllFail(r)
  \/ SaveOpenData(r)
  \/ SaveWriteData(r)
  \/ SaveWriteDataFail(r)
  \/ SaveUnmarshal(r)
  \/ SaveOpenReadable(r)
  \/ SaveWriteReadable(r)
  \/ SaveWriteReadableFail(r)
  \/ SaveRespond(r)
  \/ SaveReturn(r)

Load(r) ==
  \/ LoadBegin(r)
  \/ LoadStat(r)
  \/ LoadRead(r)
  \/ LoadReadFail(r)

Serve(r) ==
  \/ Save(r)
  \/ Load(r)
  \/ PingHandler(r)

Next ==
  \/ Bootstrap
  \/ \E r \in Reqs : Serve(r)

Spec == Init /\ [][Next]_vars

\* The Go scheduler runs every runnable goroutine, sync.Mutex hands the
\* lock to a waiter, and every I/O call returns: some enabled step is
\* eventually taken.
FairNext ==
  \/ Bootstrap
  \/ \E r \in 1..NumFairReqs : Serve(r)

FairSpec == Init /\ [][FairNext]_vars /\ WF_vars(FairNext)

\* A run in which saves may stall for ever (a body that never arrives, a
\* disk that never answers) while the goroutine of a load keeps running:
\* the server starts in a directory that has both files, the last request
\* is a load and the others are saves; only the load's steps are fair.
Savers == Reqs \ {NumReqs}
Loader == NumReqs

StallInit ==
  /\ Init
  /\ files[DataTxt].exists
  /\ files[ReadableTxt].exists

StallNext ==
  \/ BootStat
  \/ \E r \in Savers : Save(r)
  \/ Load(Loader)

StallSpec ==
  /\ StallInit
  /\ [][StallNext]_vars
  /\ WF_vars(LoadStat(Loader) \/ LoadRead(Loader))

\* ================================================================== claims
IsSave(r) == path[r] = "/save"
IsLoad(r) == path[r] = "/load"

\* The positions of saveHandler between Lock() and the deferred Unlock().
Gated == {"readall", "open_data", "write_data", "unmarshal", "open_readable",
          "write_readable", "respond", "return"}

\* Every request that has acquired saveMutex.
Acquirers == {lockOrder[i] : i \in 1..Len(lockOrder)}

\* A save that answered 200 and returned.
SavedOk(r) == IsSave(r) /\ pc[r] = "done" /\ status[r] = 200

\* No save is between Lock() and Unlock().
NoSaveInProgress == \A r \in Reqs : pc[r] \notin Gated

\* C1: two saves that both answered 200 and returned, no other save having
\* held the gate: data.txt is exactly the payload of one of them.
C1_OnePayloadWins ==
  \A r1, r2 \in Reqs :
    (r1 # r2 /\ SavedOk(r1) /\ SavedOk(r2) /\ Acquirers = {r1, r2})
      => (files[DataTxt] = File(body[r1]) \/ files[DataTxt] = File(body[r2]))

\* C1 witness: request 1 waited at Lock() while request 2, which arrived
\* later, saved first; both answered 200 with different payloads.
C1_Witness ==
  /\ lockOrder = <<2, 1>>
  /\ SavedOk(1) /\ SavedOk(2)
  /\ body[1] # body[2]
  /\ files[DataTxt] = File(body[1])

\* C2: at most one save is between Lock() and Unlock(), and it is the
\* holder of saveMutex.
C2_OneSaveInGate ==
  /\ Cardinality({r \in Reqs : pc[r] \in Gated}) <= 1
  /\ \A r \in Reqs : pc[r] \in Gated => saveMutex = r

\* C2 witness: one save is writing data.txt while another waits at Lock().
C2_Witness ==
  \E r, q \in Reqs : pc[r] = "write_data" /\ pc[q] = "lock" /\ saveMutex = r

\* C3 as claimed: once every save has returned, data.txt is the payload of
\* the save that acquired the gate last.
C3_LastAcquirerWins_Claimed ==
  (lockOrder # <<>> /\ NoSaveInProgress /\ \A r \in Reqs : pc[r] # "lock")
    => files[DataTxt] = File(body[lockOrder[Len(lockOrder)]])

\* C3 amended: once every save has returned, if the save that acquired the
\* gate last answered 200, data.txt is that save's payload.
C3_LastAcquirerWins ==
  (lockOrder # <<>> /\ NoSaveInProgress /\ \A r \in Reqs : pc[r] # "lock"
     /\ status[lockOrder[Len(lockOrder)]] = 200)
    => files[DataTxt] = File(body[lockOrder[Len(lockOrder)]])

\* C3 witness: three saves returned 200, the first to arrive acquired the
\* gate last, and its payload, different from the others', is in data.txt.
C3_Witness ==
  /\ Len(lockOrder) = NumReqs
  /\ lockOrder[NumReqs] = 1
  /\ \A r \in Reqs : SavedOk(r)
  /\ \A r \in Reqs : r # 1 => body[r] # body[1]
  /\ files[DataTxt] = File(body[1])

\* The save whose data.txt write completed last; 0 when none has.
LastSaved ==
  LET ok == {i \in 1..Len(lockOrder) :
               \/ pc[lockOrder[i]] \in {"unmarshal", "open_readable", "write_readable",
                                        "respond"}
               \/ status[lockOrder[i]] = 200}
  IN IF ok = {} THEN 0
     ELSE lockOrder[CHOOSE i \in ok : \A j \in ok : j <= i]

\* C4 as claimed: in every state where data.txt exists and a save has
\* written it, its bytes are the payload saved last.
C4_CompactIsLastPayload_Claimed ==
  (files[DataTxt].exists /\ LastSaved # 0)
    => files[DataTxt].bytes = body[LastSaved]

\* C4 amended: in every state where data.txt exists and the latest write of
\* it ran to completion, its bytes are what that write was given: the
\* payload of that save, or the empty collection of the bootstrap; and
\* while nothing has written it, the bytes it had at startup.
C4_CompactIsLastPayload ==
  files[DataTxt].exists =>
    /\ lastWrite.state = "closed" =>
         files[DataTxt].bytes = IF lastWrite.by = Main THEN <<"[", "]">>
                                ELSE body[lastWrite.by]
    /\ lastWrite.state = "none" => files[DataTxt].bytes = OldData

\* C4 witness: a payload that is no JSON array of notes was saved over an
\* earlier payload and is in data.txt byte for byte.
C4_Witness ==
  /\ Len(lockOrder) = 2
  /\ lastWrite = Write(lockOrder[2], "closed")
  /\ SavedOk(lockOrder[1])
  /\ body[lockOrder[2]] = PObject
  /\ files[DataTxt] = File(PObject)

\* json.Unmarshal rejects the bytes.
Malformed(b) == Unmarshal(b).err

\* Request l, a load, answers 200 in this step.
LoadAnswers(l) == pc[l] = "read" /\ pc'[l] = "done" /\ status'[l] = 200

\* Save s answered 200 and returned before load l arrived, and no save has
\* returned since.
SavedJustBefore(s, l) ==
  /\ s # 0
  /\ prior[l] = s
  /\ LastReturned = s
  /\ status[s] = 200

\* C5 as claimed: a load that follows a successful save of a valid
\* collection, no other save returning in between, answers bytes that parse
\* to the collection saved.
C5_RoundTrip_Claimed ==
  [][\A l \in Reqs : \A s \in Reqs :
       (LoadAnswers(l) /\ SavedJustBefore(s, l) /\ ~Malformed(body[s]))
         => Unmarshal(resp'[l]) = Unmarshal(body[s])]_vars

\* C5 amended: a load that follows a successful save of a valid collection,
\* no other save returning in between and none holding the gate when the
\* load answers, answers the saved bytes, which parse to the collection.
C5_RoundTrip ==
  [][\A l \in Reqs : \A s \in Reqs :
       (LoadAnswers(l) /\ SavedJustBefore(s, l) /\ ~Malformed(body[s])
          /\ saveMutex = NoHolder)
         => /\ resp'[l] = body[s]
            /\ Unmarshal(resp'[l]) = Unmarshal(body[s])]_vars

\* C5 witness: a load that arrived after a successful save of one note has
\* read all of data.txt, the saved bytes, and no save has run since.
C5_Witness ==
  \E l, s \in Reqs :
    /\ pc[l] = "read" /\ prior[l] = s /\ LastReturned = s
    /\ status[s] = 200 /\ body[s] = POne
    /\ saveMutex = NoHolder
    /\ buf[l] = body[s]
    /\ files[DataTxt].bytes = buf[l]

\* A save whose ioutil.ReadAll returned its payload.
HasPayload(r) ==
  /\ IsSave(r)
  /\ pc[r] \in Gated \cup {"done"}
  /\ pc[r] # "readall"
  /\ status[r] \notin {400, 405}

\* C6 as claimed: every save of a payload that does not parse answers 200
\* and does not write data_readable.txt.
C6_MalformedSave_Claimed ==
  \A r \in Reqs :
    (HasPayload(r) /\ Malformed(body[r]) /\ pc[r] = "done")
      => (status[r] = 200 /\ ReadableTxt \notin wrote[r])

\* C6 amended: a save of a payload that does not parse, whose data.txt
\* write succeeds, answers 200; data.txt is the payload when it answers;
\* no step taken while it holds the gate changes data_readable.txt; and a
\* load that follows it, no save running in between, answers the payload.
C6_MalformedSave ==
  /\ [](\A r \in Reqs :
          (HasPayload(r) /\ Malformed(body[r]) /\ status[r] # 500
             /\ pc[r] \notin {"open_data", "write_data"})
            => /\ ReadableTxt \notin wrote[r]
               /\ pc[r] \in {"unmarshal", "respond", "return", "done"}
               /\ pc[r] \in {"return", "done"} => status[r] = 200
               /\ pc[r] # "done" => files[DataTxt] = File(body[r]))
  /\ [][\A r \in Reqs :
          (saveMutex = r /\ Malformed(body'[r]))
            => files'[ReadableTxt] = files[ReadableTxt]]_vars
  /\ [][\A l \in Reqs : \A s \in Reqs :
          (LoadAnswers(l) /\ SavedJustBefore(s, l) /\ Malformed(body[s])
             /\ saveMutex = NoHolder)
            => resp'[l] = body[s]]_vars

\* C6 witness: a JSON object, which is no notes collection, was saved with
\* 200 over a readable store holding an earlier save's rendering; a load
\* that arrived afterwards has read the object's bytes.
C6_Witness ==
  \E l, s, e \in Reqs :
    /\ SavedOk(s) /\ body[s] = PObject /\ ReadableTxt \notin wrote[s]
    /\ SavedOk(e) /\ lockOrder = <<e, s>>
    /\ files[ReadableTxt] = File(MarshalIndent(Unmarshal(body[e])))
    /\ pc[l] = "read" /\ prior[l] = s /\ buf[l] = PObject
    /\ files[DataTxt] = File(PObject)

\* C7: a returned save never holds saveMutex, the mutex is free whenever
\* no save is between Lock() and Unlock(), and every save waiting at
\* Lock() eventually answers 200, 400 or 500 and returns.
C7_GateAlwaysReleased ==
  /\ [](\A r \in Reqs : pc[r] \notin Gated => saveMutex # r)
  /\ [](NoSaveInProgress => saveMutex = NoHolder)
  /\ \A r \in Reqs :
       (pc[r] = "lock") ~> (pc[r] = "done" /\ status[r] \in {200, 400, 500})

\* C7 witness: request 1 waited at Lock() while request 2 failed to write
\* data.txt and answered 500; request 1 then acquired the gate, answered
\* 200 and returned.
C7_Witness ==
  /\ lockOrder = <<2, 1>>
  /\ pc[2] = "done" /\ status[2] = 500
  /\ pc[1] = "done" /\ status[1] = 200
  /\ saveMutex = NoHolder

\* A request whose method its handler rejects.
WrongMethod(r) ==
  \/ IsSave(r) /\ method[r] # "POST"
  \/ IsLoad(r) /\ method[r] # "GET"

\* C8: a request with the wrong method has been answered 405, has opened
\* no file and has neither acquired nor waited for the gate; and whenever a
\* save holds the gate, the server can answer 405 to the next request with
\* a step that leaves both files and the gate as they are.
C8_WrongMethodNoEffect ==
  /\ \A r \in Reqs :
       WrongMethod(r)
         => /\ pc[r] = "done" /\ status[r] = 405
            /\ wrote[r] = {}
            /\ r \notin Acquirers /\ saveMutex # r
  /\ \A r \in Reqs :
       (Accepting(r) /\ saveMutex # NoHolder)
         => /\ ENABLED (SaveBegin(r) /\ status'[r] = 405 /\ pc'[r] = "done"
                          /\ files' = files /\ saveMutex' = saveMutex)
            /\ ENABLED (LoadBegin(r) /\ status'[r] = 405 /\ pc'[r] = "done"
                          /\ files' = files /\ saveMutex' = saveMutex)

\* C8 witness: a GET /save and a POST /load were answered 405 while an
\* earlier save holds the gate, in the middle of writing data.txt.
C8_Witness ==
  /\ pc[1] = "write_data" /\ saveMutex = 1 /\ off[1] > 0
  /\ IsSave(2) /\ method[2] = "GET" /\ status[2] = 405
  /\ IsLoad(3) /\ method[3] = "POST" /\ status[3] = 405

\* data.txt did not exist when the process started and no save has
\* acquired the gate.
FreshAndUnsaved ==
  /\ mainPc = "serve"
  /\ lockOrder = <<>>
  /\ lastWrite.state # "none" \/ ~files[DataTxt].exists

\* C9 as claimed: on a fresh directory, after the bootstrap and before any
\* save, a GET /load answers 200 with [].
C9_FreshLoadIsEmptyArray_Claimed ==
  \A l \in Reqs :
    (FreshAndUnsaved /\ IsLoad(l) /\ method[l] = "GET" /\ pc[l] = "done")
      => (status[l] = 200 /\ resp[l] = <<"[", "]">>)

\* C9 amended: on a fresh directory, after a bootstrap whose write of
\* data.txt succeeded and before any save, a GET /load whose read succeeds
\* answers 200 with [] (never 404).
C9_FreshLoadIsEmptyArray ==
  \A l \in Reqs :
    (FreshAndUnsaved /\ lastWrite = Write(Main, "closed")
       /\ IsLoad(l) /\ method[l] = "GET" /\ pc[l] = "done" /\ status[l] # 500)
      => (status[l] = 200 /\ resp[l] = <<"[", "]">>)

\* C9 witness: the bootstrap created data.txt and a GET /load answered [].
C9_Witness ==
  \E l \in Reqs :
    /\ FreshAndUnsaved /\ lastWrite = Write(Main, "closed")
    /\ IsLoad(l) /\ method[l] = "GET" /\ pc[l] = "done"
    /\ status[l] = 200 /\ resp[l] = <<"[", "]">>

\* C10: a save whose write of data.txt failed has answered 500; a save
\* that answered 500 has left saveHandler without opening
\* data_readable.txt, and does not hold the gate once returned.
C10_CompactWriteFailure ==
  /\ \A r \in Reqs :
       lastWrite = Write(r, "failed") => (IsSave(r) /\ status[r] = 500)
  /\ \A r \in Reqs :
       (IsSave(r) /\ status[r] = 500)
         => /\ ReadableTxt \notin wrote[r]
            /\ pc[r] \in {"return", "done"}
            /\ pc[r] = "done" => saveMutex # r

\* C10 witness: a save failed in the middle of writing data.txt, answered
\* 500 and returned; data_readable.txt still holds the rendering of the
\* save before it and the gate is free.
C10_Witness ==
  \E r, e \in Reqs :
    /\ lockOrder = <<e, r>>
    /\ SavedOk(e) /\ ReadableTxt \in wrote[e]
    /\ pc[r] = "done" /\ status[r] = 500 /\ lastWrite = Write(r, "failed")
    /\ files[ReadableTxt] = File(MarshalIndent(Unmarshal(body[e])))
    /\ files[DataTxt].bytes # body[e]
    /\ saveMutex = NoHolder

\* A save whose ioutil.ReadAll returned an error: it has left the handler
\* with no payload.
BodyReadFailed(r) ==
  /\ IsSave(r) /\ method[r] = "POST"
  /\ pc[r] \in {"return", "done"}
  /\ body[r] = <<>>

\* C11: a save whose body read failed has answered 400 without opening
\* data.txt or data_readable.txt; a save that answered 400 has left the
\* handler; and the step that answers 400 leaves both files as they are.
C11_BodyReadFailure ==
  /\ \A r \in Reqs :
       BodyReadFailed(r)
         => /\ status[r] = 400
            /\ resp[r] = ErrorText("Error reading request body")
            /\ wrote[r] = {}
  /\ \A r \in Reqs :
       (IsSave(r) /\ status[r] = 400) => (pc[r] \in {"return", "done"} /\ wrote[r] = {})
  /\ \A r \in Reqs :
       pc[r] = "readall"
         => ENABLED (SaveReadAllFail(r) /\ status'[r] = 400 /\ files' = files)

\* C11 witness: after a save stored one note in both files, a second save
\* failed to read its body, answered 400 and returned; both files still
\* hold what the first save wrote.
C11_Witness ==
  \E r, e \in Reqs :
    /\ lockOrder = <<e, r>>
    /\ SavedOk(e) /\ body[e] = POne
    /\ BodyReadFailed(r) /\ pc[r] = "done" /\ status[r] = 400
    /\ files[DataTxt] = File(POne)
    /\ files[ReadableTxt] = File(MarshalIndent(Unmarshal(POne)))

\* C12: no step removes a file that exists, and no step makes a load answer
\* 404 while data.txt exists.
C12_StoresNeverDeleted ==
  /\ [][\A f \in FileNames : files[f].exists => files'[f].exists]_vars
  /\ [][\A l \in Reqs :
          (files[DataTxt].exists /\ status'[l] = 404) => status[l] = 404]_vars

\* C12 witness: on a fresh directory the bootstrap failed to create
\* data.txt and the first load answered 404; a save then created the file,
\* and the load after it answered 200 with the saved bytes.
C12_Witness ==
  /\ IsLoad(1) /\ status[1] = 404
  /\ SavedOk(2) /\ lastWrite = Write(2, "closed")
  /\ IsLoad(3) /\ pc[3] = "done" /\ status[3] = 200 /\ resp[3] = body[2]
  /\ files[DataTxt].exists

\* The JSON object a response body holds: the map whose encoding it is.
DecodeObject(bytes) ==
  LET known == {m \in {SaveResponse, PingResponse} : Encode(m) = bytes}
  IN IF known = {} THEN [status |-> "", message |-> ""]
     ELSE CHOOSE m \in known : TRUE

IsPing(r) == path[r] = "/ping"

\* C13: every /ping request has been answered 200 with the JSON object
\* {"status":"ok","message":"Server is running"}, has opened no file and
\* has not touched the gate; and whenever the server can accept a request,
\* whatever the files and whoever holds the gate, it can answer a /ping
\* with that object in a step that changes neither the files nor the gate.
C13_PingFixedPayload ==
  /\ \A r \in Reqs :
       IsPing(r)
         => /\ pc[r] = "done" /\ status[r] = 200
            /\ DecodeObject(resp[r]) = [status |-> "ok", message |-> "Server is running"]
            /\ wrote[r] = {}
            /\ r \notin Acquirers /\ saveMutex # r
  /\ \A r \in Reqs :
       Accepting(r)
         => ENABLED (/\ PingHandler(r)
                     /\ DecodeObject(resp'[r]) =
                          [status |-> "ok", message |-> "Server is running"]
                     /\ files' = files
                     /\ saveMutex' = saveMutex)

\* C13 witness: data.txt does not exist (the bootstrap could not create
\* it), a save holds the gate, and a /ping that arrived after it has been
\* answered.
C13_Witness ==
  \E r, s \in Reqs :
    /\ ~files[DataTxt].exists
    /\ saveMutex = s /\ pc[s] = "open_data" /\ s < r
    /\ IsPing(r) /\ status[r] = 200
    /\ resp[r] = <<"{\"message\":\"Server is running\",\"status\":\"ok\"}\n">>

\* The save that stored last a payload that parses as []Note (it answered
\* 200); 0 when no save has.
LastParsed ==
  LET ok == {i \in 1..Len(lockOrder) :
               status[lockOrder[i]] = 200 /\ ~Malformed(body[lockOrder[i]])}
  IN IF ok = {} THEN 0
     ELSE lockOrder[CHOOSE i \in ok : \A j \in ok : j <= i]

\* The indented rendering data_readable.txt should hold: of the payload of
\* LastParsed, or of the bootstrap's empty collection.
LastRendering ==
  IF LastParsed = 0 THEN <<"[", "]">>
  ELSE MarshalIndent(Unmarshal(body[LastParsed]))

\* C14 as claimed: whenever no save is in progress and the bootstrap or a
\* save has written data_readable.txt, the file is the rendering of the
\* payload that parsed last (of the empty collection when none has).
C14_ReadableIsLastParsed_Claimed ==
  (mainPc = "serve" /\ NoSaveInProgress /\ lastReadable.state # "none")
    => files[ReadableTxt] = File(LastRendering)

\* C14 amended: whenever no save is in progress and the latest write of
\* data_readable.txt ran to completion, its writer is the save whose payload
\* parsed last (the bootstrap when none has) and the file is the rendering
\* of that payload (of the empty collection); a save whose payload does not
\* parse never opens the file.
C14_ReadableIsLastParsed ==
  /\ (mainPc = "serve" /\ NoSaveInProgress /\ lastReadable.state = "closed")
       => /\ lastReadable.by = (IF LastParsed = 0 THEN Main ELSE LastParsed)
          /\ files[ReadableTxt] = File(LastRendering)
  /\ \A r \in Reqs :
       (HasPayload(r) /\ Malformed(body[r]))
         => (ReadableTxt \notin wrote[r] /\ lastReadable.by # r)

\* C14 witness: a save of one note, then a save of a JSON object that is no
\* notes collection, both answered 200; data_readable.txt holds the
\* rendering of the note while data.txt holds the object.
C14_Witness ==
  \E e, s \in Reqs :
    /\ lockOrder = <<e, s>> /\ NoSaveInProgress
    /\ SavedOk(e) /\ body[e] = POne
    /\ SavedOk(s) /\ body[s] = PObject
    /\ lastReadable = Write(e, "closed")
    /\ LastParsed = e
    /\ files[ReadableTxt] = File(MarshalIndent(Notes(<<ZeroNote>>)))
    /\ files[DataTxt] = File(PObject)

\* C15: a load never acquires or waits for the gate; and whenever a load
\* has read all the bytes data.txt holds while a save is in the middle of
\* writing it, the load's next read is EOF: it can answer 200 at once with
\* those bytes, which are not the save's payload.
C15_TornReadReachable ==
  /\ \A l \in Reqs :
       IsLoad(l) => (l \notin Acquirers /\ saveMutex # l /\ pc[l] # "lock")
  /\ \A l, s \in Reqs :
       (pc[l] = "read" /\ pc[s] = "write_data" /\ buf[l] = files[DataTxt].bytes)
         => ENABLED (/\ LoadRead(l)
                     /\ status'[l] = 200
                     /\ resp'[l] = files[DataTxt].bytes
                     /\ resp'[l] # body[s])

\* C15 witness: one save and one load are the only requests; the load
\* answered 200 with the first two bytes of the save's four-byte payload,
\* which is neither a content data.txt had before the save (the bytes of an
\* earlier run, the bootstrap's [], or nothing) nor the payload.
C15_Witness ==
  \E l, s \in Reqs :
    /\ lockOrder = <<s>> /\ body[s] = POne
    /\ IsLoad(l) /\ pc[l] = "done" /\ status[l] = 200
    /\ \A q \in Reqs \ {l, s} : pc[q] = "idle"
    /\ resp[l] = <<"[", "{">>
    /\ resp[l] \notin {OldData, <<"[", "]">>, <<>>, body[s]}

\* A load that has passed its method check and has not answered yet.
Loading(l) == pc[l] \in {"stat", "read"}

\* C16: at every position of loadHandler the load has a step that neither
\* needs nor changes saveMutex, whoever holds it and whoever waits for it;
\* and, saves being free to stall for ever, every load that has started
\* answers.
C16_LoadNeverBlocked ==
  /\ [](\A l \in Reqs :
          Accepting(l) => ENABLED (LoadBegin(l) /\ pc'[l] = "stat"))
  /\ [](\A l \in Reqs :
          Loading(l) => ENABLED (/\ LoadStat(l) \/ LoadRead(l)
                                 /\ saveMutex' = saveMutex
                                 /\ lockOrder' = lockOrder))
  /\ \A l \in Reqs : Loading(l) ~> (pc[l] = "done" /\ status[l] # 0)

\* C16 witness: a save holds the gate in the middle of writing data.txt,
\* another save waits at Lock(), and the load that arrived after both has
\* answered.
C16_Witness ==
  \E h, q, l \in Reqs :
    /\ saveMutex = h /\ pc[h] = "write_data" /\ off[h] > 0
    /\ pc[q] = "lock"
    /\ h < l /\ q < l
    /\ IsLoad(l) /\ method[l] = "GET" /\ pc[l] = "done" /\ status[l] = 200

\* The bootstrap found data.txt present: main has called WriteFile on
\* neither file.
BootSkipped == lastWrite.state = "none" /\ files[DataTxt].exists /\ lockOrder = <<>>

\* C17: while no save has run: if data.txt existed at the start, main goes
\* from the Stat straight to serving and the step changes no file, data.txt
\* keeps its bytes and data_readable.txt is as it was (absent or with its
\* bytes); main writes only when data.txt was absent, and then, by the
\* time it serves, it has called WriteFile on both files, each holding the
\* empty collection if its write succeeded.
C17_BootstrapNoOpIfPresent ==
  /\ [][(mainPc = "stat" /\ files[DataTxt].exists)
          => (mainPc' = "serve" /\ files' = files)]_vars
  /\ [](BootSkipped
          => /\ mainPc \in {"stat", "serve"}
             /\ files[DataTxt] = File(OldData)
             /\ lastReadable = NoWrite
             /\ files[ReadableTxt] \in {Absent, File(OldReadable)})
  /\ [](mainPc \notin {"stat", "serve"} => ~BootSkipped)
  /\ []((mainPc = "serve" /\ lockOrder = <<>> /\ ~BootSkipped)
          => /\ lastReadable.by = Main /\ lastReadable.state \in {"closed", "failed"}
             /\ lastWrite = Write(Main, "closed") => files[DataTxt] = File(<<"[", "]">>)
             /\ lastReadable = Write(Main, "closed")
                  => files[ReadableTxt] = File(<<"[", "]">>))

\* C17 witness: data.txt existed and data_readable.txt did not; main is
\* serving, no save has run, and the files are as they were.
C17_Witness ==
  /\ mainPc = "serve" /\ BootSkipped
  /\ files[DataTxt] = File(OldData)
  /\ files[ReadableTxt] = Absent
  /\ lastReadable = NoWrite

\* C18: a save whose write of data.txt completed is past phase 1 with no
\* error status, data.txt holds its payload until another save opens the
\* file, and it leaves the handler only with 200 and the success object,
\* whether its payload parses or not; a save whose write of
\* data_readable.txt failed is such a save: it never answers anything but
\* 200, and data.txt still holds its payload.
C18_OutcomeFromPhaseOne ==
  /\ \A r \in Reqs :
       lastWrite = Write(r, "closed")
         => /\ IsSave(r)
            /\ pc[r] \in {"unmarshal", "open_readable", "write_readable",
                          "respond", "return", "done"}
            /\ status[r] \in {0, 200}
            /\ pc[r] \in {"return", "done"}
                 => (status[r] = 200 /\ DecodeObject(resp[r]) = SaveResponse)
            /\ files[DataTxt] = File(body[r])
  /\ \A r \in Reqs :
       lastReadable = Write(r, "failed")
         => /\ DataTxt \in wrote[r]
            /\ pc[r] \in {"respond", "return", "done"}
            /\ status[r] \in {0, 200}
            /\ pc[r] \in {"return", "done"} => status[r] = 200
            /\ pc[r] # "done" => lastWrite = Write(r, "closed")

\* C18 witness: a save of one note wrote data.txt, failed in the middle of
\* writing data_readable.txt, and answered 200; data.txt holds the note and
\* data_readable.txt an unfinished rendering.
C18_Witness ==
  \E r \in Reqs :
    /\ SavedOk(r) /\ body[r] = POne
    /\ lastWrite = Write(r, "closed")
    /\ lastReadable = Write(r, "failed")
    /\ files[DataTxt] = File(POne)
    /\ files[ReadableTxt].bytes # <<>>
    /\ files[ReadableTxt].bytes # MarshalIndent(Unmarshal(POne))
    /\ resp[r] = Encode(SaveResponse)

\* Save r has written its 200 response and has not yet returned (the
\* deferred Unlock() has not run).
JustAnswered(r) == IsSave(r) /\ pc[r] = "return" /\ status[r] = 200

\* C19: when a save is about to write its 200 response, and when it has
\* just written it, it holds the gate, no other save is between Lock() and
\* Unlock(), and data.txt is exactly its payload; the step that writes the
\* response changes no file.
C19_StoreIsPayloadAtResponse ==
  /\ [](\A r \in Reqs :
          (pc[r] = "respond" \/ JustAnswered(r))
            => /\ saveMutex = r
               /\ \A q \in Reqs \ {r} : pc[q] \notin Gated
               /\ files[DataTxt] = File(body[r]))
  /\ [][\A r \in Reqs :
          (status[r] # 200 /\ status'[r] = 200 /\ IsSave(r))
            => (files' = files /\ files'[DataTxt] = File(body'[r]))]_vars

\* C19 witness: the second save to hold the gate has just answered 200 and
\* still holds it; data.txt is its payload, not the first save's; a third
\* save waits at Lock().
C19_Witness ==
  \E e, r, q \in Reqs :
    /\ lockOrder = <<e, r>>
    /\ SavedOk(e) /\ body[e] # body[r]
    /\ JustAnswered(r) /\ saveMutex = r
    /\ pc[q] = "lock"
    /\ files[DataTxt] = File(body[r])

\* C20: while main is in createDefaultFilesIfNotExists no request has been
\* accepted; once main serves it never goes back; no step of main is
\* taken once a request has been accepted; and once a save has opened a
\* file, the latest writer of that file is a save, never main.
C20_BootstrapBeforeServing ==
  /\ [](mainPc # "serve"
          => \A r \in Reqs : pc[r] = "idle" /\ path[r] = "" /\ status[r] = 0)
  /\ [][mainPc = "serve" => mainPc' = "serve"]_vars
  /\ [][(\E r \in Reqs : pc[r] # "idle")
          => (mainPc' = mainPc /\ mainOff' = mainOff)]_vars
  /\ [](\A r \in Reqs :
          /\ DataTxt \in wrote[r] => lastWrite.by # Main
          /\ ReadableTxt \in wrote[r] => lastReadable.by # Main)

\* C20 witness: the bootstrap created both files and returned; since then
\* a /ping and a /load have been answered and a save has stored one note in
\* both files, which still hold it.
C20_Witness ==
  \E p, l, s \in Reqs :
    /\ mainPc = "serve"
    /\ IsPing(p) /\ status[p] = 200
    /\ IsLoad(l) /\ p < l /\ pc[l] = "done" /\ resp[l] = <<"[", "]">>
    /\ l < s /\ SavedOk(s) /\ body[s] = POne /\ wrote[s] = {DataTxt, ReadableTxt}
    /\ lastWrite = Write(s, "closed") /\ lastReadable = Write(s, "closed")
    /\ files[DataTxt] = File(POne)
    /\ files[ReadableTxt] = File(MarshalIndent(Unmarshal(POne)))

====
